---- MODULE Spec2Model ----
(***************************************************************************)
(* YAML preview extension (src/src/extension.ts).                          *)
(*                                                                         *)
(* Two parts are modelled:                                                 *)
(*   - the renderer, renderObject and its helpers, in both variants the    *)
(*     source holds (the decomposed one, lines 155-223, and the            *)
(*     single-function one, lines 381-430), as recursive operators over    *)
(*     parsed YAML trees;                                                  *)
(*   - the preview session of activate(): currentPanel, the panel's html   *)
(*     and title, and the four event handlers.                             *)
(*                                                                         *)
(* An HTML string is a sequence of tokens; template-literal concatenation  *)
(* is \o.  A call that throws yields Throw(msg).                           *)
(***************************************************************************)
EXTENDS Integers, Sequences, FiniteSets, TLC

\* ------------------------------------------------------------------ bounds
\* Largest number of nodes of a parsed tree handed to the renderer.
MaxNodes == 4
\* Largest number of preview panels created in one run.
MaxPanels == 2
\* Largest first visible line an editor reports.
MaxLine == 1

\* ------------------------------------------------------- parsed YAML values
\* What yaml.load returns: JS values tagged with their runtime type.
Str(s) == [t |-> "string", s |-> s]
Num(n) == [t |-> "number", n |-> n]
Bool(b) == [t |-> "boolean", b |-> b]
Null == [t |-> "null"]
Undefined == [t |-> "undefined"]
Arr(items) == [t |-> "array", items |-> items]
\* A mapping keeps its pairs <<key, value>> in the order the parser inserted them.
Obj(entries) == [t |-> "object", entries |-> entries]

Keys == {"Title", "a", "1"}
Scalars == {Str("x"), Num(7), Bool(TRUE), Null}

\* Integer-like property names and their numeric value.
ArrayIndex == [k \in {"0", "1", "2"} |-> CASE k = "0" -> 0 [] k = "1" -> 1 [] k = "2" -> 2]

RECURSIVE TreesOfSize(_), Forests(_)
\* Sequences of trees holding exactly n nodes in total.
Forests(n) ==
  IF n = 0 THEN {<<>>}
  ELSE UNION {{<<t>> \o f : t \in TreesOfSize(k), f \in Forests(n - k)} : k \in 1..n}

\* Sequences of n distinct keys drawn from ks.
RECURSIVE KeySeqsFrom(_, _)
KeySeqsFrom(n, ks) ==
  IF n = 0 THEN {<<>>}
  ELSE UNION {{<<k>> \o r : r \in KeySeqsFrom(n - 1, ks \ {k})} : k \in ks}

KeySeqs(n) == KeySeqsFrom(n, Keys)

\* The pairs <<ks[i], f[i]>>.
RECURSIVE Zip(_, _)
Zip(ks, f) ==
  IF ks = <<>> THEN <<>> ELSE << <<Head(ks), Head(f)>> >> \o Zip(Tail(ks), Tail(f))

\* Trees of exactly n nodes.
TreesOfSize(n) ==
  IF n = 1 THEN Scalars \cup {Arr(<<>>), Obj(<<>>)}
  ELSE LET fs == {f \in Forests(n - 1) : Len(f) >= 1}
       IN  {Arr(f) : f \in fs}
           \cup UNION {{Obj(Zip(ks, f)) : ks \in KeySeqs(Len(f))}
                       : f \in {g \in fs : Len(g) <= Cardinality(Keys)}}

\* t is a well-formed parsed tree of at most MaxNodes nodes, or the absent
\* root.  (Written with quantifiers so that no set larger than
\* TreesOfSize(MaxNodes - 1) is ever built.)
IsInputTree(t) ==
  \/ t \in TreesOfSize(1) \cup {Undefined}
  \/ \E n \in 2..MaxNodes : \E k \in 1..(n - 1) :
       LET first == TreesOfSize(k)
           rest == Forests(n - 1 - k)
       IN  \E h \in first, f \in rest :
             LET g == <<h>> \o f
             IN  \/ t = Arr(g)
                 \/ \E ks \in KeySeqs(Len(g)) : t = Obj(Zip(ks, g))

\* ------------------------------------------------------- results of a call
Ok(html) == [err |-> FALSE, html |-> html, msg |-> ""]
Throw(msg) == [err |-> TRUE, html |-> <<>>, msg |-> msg]

TypeErrorMsg == "TypeError"

RECURSIVE Flatten(_)
Flatten(ss) == IF ss = <<>> THEN <<>> ELSE Head(ss) \o Flatten(Tail(ss))

\* items.map(f).join(""): the first callback that throws aborts the map.
Join(rs) ==
  IF \E i \in 1..Len(rs) : rs[i].err
  THEN Throw(rs[CHOOSE i \in 1..Len(rs) : rs[i].err /\ \A j \in 1..(i - 1) : ~rs[j].err].msg)
  ELSE Ok(Flatten([i \in 1..Len(rs) |-> rs[i].html]))

\* `${pre}${r}${post}` where evaluating r may throw.
Wrap(pre, r, post) == IF r.err THEN r ELSE Ok(pre \o r.html \o post)

\* ------------------------------------------------------------ JS primitives
\* md.render(text): markdown-it wraps the text in a paragraph.
mdRender(s) == IF s = "" THEN <<>> ELSE <<"<p>", s, "</p>">>

NumToString(n) == CASE n = 0 -> "0" [] n = 7 -> "7" [] OTHER -> "NaN"

\* obj.toString() on a value that is neither array, object nor string.
toString(obj) ==
  CASE obj.t = "number" -> Ok(<<NumToString(obj.n)>>)
    [] obj.t = "boolean" -> Ok(<<IF obj.b THEN "true" ELSE "false">>)
    [] OTHER -> Throw(TypeErrorMsg)

\* typeof x === "object"
TypeofObject(x) == x.t \in {"object", "array", "null"}

\* JS truthiness.
Truthy(x) ==
  CASE x.t = "string" -> x.s # ""
    [] x.t = "number" -> x.n # 0
    [] x.t = "boolean" -> x.b
    [] x.t \in {"object", "array"} -> TRUE
    [] OTHER -> FALSE

RECURSIVE SortByIndex(_)
SortByIndex(es) ==
  IF es = <<>> THEN <<>>
  ELSE LET m == CHOOSE i \in 1..Len(es) :
                  \A j \in 1..Len(es) : ArrayIndex[es[i][1]] <= ArrayIndex[es[j][1]]
       IN  <<es[m]>> \o SortByIndex(SelectSeq(es, LAMBDA e : e # es[m]))

IsIndexKey(e) == e[1] \in DOMAIN ArrayIndex
IsNameKey(e) == e[1] \notin DOMAIN ArrayIndex

\* Object.entries(o) of a plain object: integer-like keys in ascending numeric
\* order first, then the other keys in insertion order.
ObjectEntries(o) ==
  SortByIndex(SelectSeq(o.entries, IsIndexKey)) \o SelectSeq(o.entries, IsNameKey)

\* obj["Title"]
GetTitle(obj) ==
  IF obj.t = "object" /\ \E i \in 1..Len(obj.entries) : obj.entries[i][1] = "Title"
  THEN obj.entries[CHOOSE i \in 1..Len(obj.entries) : obj.entries[i][1] = "Title"][2]
  ELSE Undefined

\* ---------------------------------------------- renderer, decomposed variant
RECURSIVE renderObject(_, _), renderArray(_), renderItem(_)
RECURSIVE renderArrayObjectItem(_), renderObjectEntry(_, _), renderObjectProperties(_, _)

\* renderObjectEntry with the array case lost: every value gets the extra list.
renderObjectEntryAlwaysWraps(key, value) ==
  Wrap(<<"<li>", key, ":", "<ul>">>, renderObject(value, FALSE), <<"</ul>", "</li>">>)

renderObjectEntry(key, value) ==
  LET valueHtml == renderObject(value, FALSE)
  IN  IF value.t = "array"
      THEN Wrap(<<"<li>", key, ": ">>, valueHtml, <<"</li>">>)
      ELSE Wrap(<<"<li>", key, ":", "<ul>">>, valueHtml, <<"</ul>", "</li>">>)

\* Object.entries(item) throws a TypeError when item is null.
renderArrayObjectItem(item) ==
  IF item.t # "object" THEN Throw(TypeErrorMsg)
  ELSE LET es == ObjectEntries(item)
       IN  Join([i \in 1..Len(es) |-> renderObjectEntry(es[i][1], es[i][2])])

renderItem(item) ==
  IF TypeofObject(item) /\ item.t # "array"
  THEN renderArrayObjectItem(item)
  ELSE Wrap(<<"<li>">>, renderObject(item, FALSE), <<"</li>">>)

renderArray(objArray) ==
  Wrap(<<"<ul>">>,
       Join([i \in 1..Len(objArray.items) |-> renderItem(objArray.items[i])]),
       <<"</ul>">>)

\* renderObjectProperties filtering "Title" at every level, not only at the root.
renderObjectPropertiesFiltersEverywhere(obj, isRoot) ==
  LET es == SelectSeq(ObjectEntries(obj), LAMBDA e : e[1] # "Title")
      innerContent ==
        Join([i \in 1..Len(es) |->
                Wrap(<<"<li>", es[i][1], ": ">>, renderObject(es[i][2], FALSE), <<"</li>">>)])
  IN  IF isRoot THEN innerContent ELSE Wrap(<<"<ul>">>, innerContent, <<"</ul>">>)

renderObjectProperties(obj, isRoot) ==
  LET es == SelectSeq(ObjectEntries(obj), LAMBDA e : ~(isRoot /\ e[1] = "Title"))
      innerContent ==
        Join([i \in 1..Len(es) |->
                Wrap(<<"<li>", es[i][1], ": ">>, renderObject(es[i][2], FALSE), <<"</li>">>)])
  IN  IF isRoot THEN innerContent ELSE Wrap(<<"<ul>">>, innerContent, <<"</ul>">>)

renderObject(obj, isRoot) ==
  LET htmlContent ==
        CASE obj.t = "array" -> renderArray(obj)
          [] obj.t = "object" -> renderObjectProperties(obj, isRoot)
          [] obj.t = "string" -> Ok(mdRender(obj.s))
          [] OTHER -> toString(obj)
  IN  IF htmlContent.err THEN htmlContent
      ELSE IF isRoot /\ Truthy(obj) /\ GetTitle(obj).t = "string"
           THEN Ok(<<"<h1>">> \o mdRender(GetTitle(obj).s) \o <<"</h1>">> \o htmlContent.html)
           ELSE htmlContent

\* ----------------------------------------- renderer, single-function variant
RECURSIVE renderObject2(_, _)
renderObject2(obj, isRoot) ==
  LET arrayItem(item) ==
        IF TypeofObject(item) /\ item.t # "array"
        THEN IF item.t # "object" THEN Throw(TypeErrorMsg)
             ELSE LET es == ObjectEntries(item)
                  IN  Join([i \in 1..Len(es) |->
                        LET valueHtml == renderObject2(es[i][2], FALSE)
                        IN  IF es[i][2].t = "array"
                            THEN Wrap(<<"<li>", es[i][1], ": ">>, valueHtml, <<"</li>">>)
                            ELSE Wrap(<<"<li>", es[i][1], ":", "<ul>">>, valueHtml,
                                      <<"</ul>", "</li>">>)])
        ELSE Wrap(<<"<li>">>, renderObject2(item, FALSE), <<"</li>">>)
      htmlContent ==
        CASE obj.t = "array" ->
               Wrap(<<"<ul>">>,
                    Join([i \in 1..Len(obj.items) |-> arrayItem(obj.items[i])]),
                    <<"</ul>">>)
          [] obj.t = "object" ->
               LET es == SelectSeq(ObjectEntries(obj),
                                   LAMBDA e : ~(isRoot /\ e[1] = "Title"))
                   innerContent ==
                     Join([i \in 1..Len(es) |->
                             LET valueHtml == renderObject2(es[i][2], FALSE)
                             IN  Wrap(<<"<li>", es[i][1], ": ">>, valueHtml, <<"</li>">>)])
               IN  IF isRoot THEN innerContent
                   ELSE Wrap(<<"<ul>">>, innerContent, <<"</ul>">>)
          [] obj.t = "string" -> Ok(mdRender(obj.s))
          [] OTHER -> toString(obj)
  IN  IF htmlContent.err THEN htmlContent
      ELSE IF isRoot /\ Truthy(obj) /\ GetTitle(obj).t = "string"
           THEN Ok(<<"<h1>">> \o mdRender(GetTitle(obj).s) \o <<"</h1>">> \o htmlContent.html)
           ELSE htmlContent

\* ------------------------------------------------------ documents and text
Docs == {"/w/a.yaml", "/w/n.txt"}
NoEditor == "no editor"
\* currentPanel = undefined
NoPanel == 0

\* document.languageId
languageId(d) == IF d = "/w/a.yaml" THEN "yaml" ELSE "plaintext"

\* path.basename(document.fileName)
basename(d) == IF d = "/w/a.yaml" THEN "a.yaml" ELSE "n.txt"

TextTitle == "Title: x\na:\n- x\n- 7"
TextList == "- x"
TextNullValue == "a: ~"
TextEmpty == ""
TextBad == "a: \"x"
Texts == {TextTitle, TextList, TextNullValue, TextEmpty, TextBad}

YamlErrorMsg == "unexpected end of the stream within a double quoted scalar"

\* yaml.load(content): the parsed value, or a YAMLException.
yamlLoad(content) ==
  CASE content = TextTitle ->
         [err |-> FALSE, msg |-> "",
          value |-> Obj(<< <<"Title", Str("x")>>, <<"a", Arr(<<Str("x"), Num(7)>>)>> >>)]
    [] content = TextList -> [err |-> FALSE, msg |-> "", value |-> Arr(<<Str("x")>>)]
    [] content = TextNullValue ->
         [err |-> FALSE, msg |-> "", value |-> Obj(<< <<"a", Null>> >>)]
    [] content = TextEmpty -> [err |-> FALSE, msg |-> "", value |-> Undefined]
    [] OTHER -> [err |-> TRUE, msg |-> YamlErrorMsg, value |-> Undefined]

\* document.lineCount
lineCount(content) == IF content = TextTitle THEN 4 ELSE 1

\* The first visible lines an editor showing content can report.
VisibleLines(content) ==
  {l \in 0..MaxLine : l < lineCount(content)}

\* -------------------------------------------------------------- the webview
getWebviewContent(content) ==
  Wrap(<<"<html>", "<head>", "<script>", "<style>", "</head>", "<body>", "<ul>">>,
       renderObject(content, TRUE),
       <<"</ul>", "</body>", "</html>">>)

ErrorPage(msg) ==
  <<"<html>", "<body>", "<p>", "Error parsing YAML: ", msg, "</p>", "</body>", "</html>">>

\* A panel as the host holds it.  parse and rendered record what the
\* updateWebviewContent call that last assigned html did: whether yaml.load
\* returned ("ok") or threw ("failed"), and whether getWebviewContent ran.
BlankPanel ==
  [alive |-> FALSE, html |-> <<>>, title |-> <<>>, message |-> <<>>,
   parse |-> "none", rendered |-> FALSE]

\* vscode.window.createWebviewPanel("yamlPreview", "YAML Preview", ...)
createWebviewPanel == [BlankPanel EXCEPT !.alive = TRUE, !.title = <<"YAML Preview">>]

\* updateWebviewContent with the catch block empty: a failed update leaves
\* the previous html in place.
updateWebviewContentKeepsStale(d, content, panel) ==
  IF languageId(d) = "yaml"
  THEN LET parsedContent == yamlLoad(content)
           page == getWebviewContent(parsedContent.value)
       IN  IF parsedContent.err \/ page.err
           THEN panel
           ELSE [panel EXCEPT !.html = page.html, !.title = <<"Preview ", basename(d)>>,
                              !.parse = "ok", !.rendered = TRUE]
  ELSE panel

updateWebviewContent(d, content, panel) ==
  IF languageId(d) = "yaml"
  THEN LET parsedContent == yamlLoad(content)
           page == getWebviewContent(parsedContent.value)
       IN  IF parsedContent.err
           THEN [panel EXCEPT !.html = ErrorPage(parsedContent.msg),
                              !.parse = "failed", !.rendered = FALSE]
           ELSE IF page.err
           THEN [panel EXCEPT !.html = ErrorPage(page.msg),
                              !.parse = "ok", !.rendered = TRUE]
           ELSE [panel EXCEPT !.html = page.html, !.title = <<"Preview ", basename(d)>>,
                              !.parse = "ok", !.rendered = TRUE]
  ELSE panel

\* panel.webview.postMessage({type: "scroll", percentage: line / total})
postMessage(panel, line, total) == [panel EXCEPT !.message = <<"scroll", line, total>>]

\* ------------------------------------------------------------------- state
VARIABLES
  obj,             \* the tree handed to the renderer
  isRoot,          \* the isRoot argument
  pc,              \* "start", "first" (decomposed variant returned), "done"
  html1,           \* result of the decomposed renderObject
  html2,           \* result of the single-function renderObject
  text,            \* the current text of each document
  active,          \* vscode.window.activeTextEditor's document, or NoEditor
  currentPanel,    \* 0 for undefined, else the panel's number
  panels,          \* the panels the host has created
  created,         \* how many panels were created
  last,            \* the handler that ran last and the parse attempts it made
  sentToDisposed   \* whether an update or a message went to a disposed panel

rvars == <<obj, isRoot, pc, html1, html2>>
svars == <<text, active, currentPanel, panels, created, last, sentToDisposed>>
vars == <<rvars, svars>>

NotRun == [err |-> FALSE, html |-> <<"not run">>, msg |-> ""]

RendererIdle ==
  /\ obj = Undefined
  /\ isRoot = TRUE
  /\ pc = "idle"
  /\ html1 = NotRun
  /\ html2 = NotRun

SessionIdle ==
  /\ text = [d \in Docs |-> TextEmpty]
  /\ active = NoEditor
  /\ currentPanel = NoPanel
  /\ panels = [p \in 1..MaxPanels |-> BlankPanel]
  /\ created = 0
  /\ last = [event |-> "activate", doc |-> NoEditor, attempts |-> 0]
  /\ sentToDisposed = FALSE

\* ------------------------------------------------------ the renderer alone
RenderInit ==
  /\ IsInputTree(obj)
  /\ isRoot \in BOOLEAN
  /\ pc = "start"
  /\ html1 = NotRun
  /\ html2 = NotRun
  /\ SessionIdle

RenderFirst ==
  /\ pc = "start"
  /\ html1' = renderObject(obj, isRoot)
  /\ pc' = "first"
  /\ UNCHANGED <<obj, isRoot, html2, svars>>

RenderSecond ==
  /\ pc = "first"
  /\ html2' = renderObject2(obj, isRoot)
  /\ pc' = "done"
  /\ UNCHANGED <<obj, isRoot, html1, svars>>

RenderNext == RenderFirst \/ RenderSecond

RenderSpec == RenderInit /\ [][RenderNext]_vars

\* ------------------------------------------------------ the preview session
Init ==
  /\ RendererIdle
  /\ text \in [Docs -> Texts]
  /\ active \in Docs \cup {NoEditor}
  /\ currentPanel = NoPanel
  /\ panels = [p \in 1..MaxPanels |-> BlankPanel]
  /\ created = 0
  /\ last = [event |-> "activate", doc |-> NoEditor, attempts |-> 0]
  /\ sentToDisposed = FALSE

\* Parse attempts one updateWebviewContent call makes.
Attempts(d) == IF languageId(d) = "yaml" THEN 1 ELSE 0

\* openPreviewWindow() with editor the active editor and line its first
\* visible line.
openPreviewWindow(editor, line, event) ==
  IF editor = NoEditor
  THEN /\ UNCHANGED <<currentPanel, panels, created, sentToDisposed>>
       /\ last' = [event |-> event, doc |-> editor, attempts |-> 0]
  ELSE /\ line \in VisibleLines(text[editor])
       /\ last' = [event |-> event, doc |-> editor, attempts |-> Attempts(editor)]
       /\ IF currentPanel # NoPanel
          THEN /\ panels' = [panels EXCEPT ![currentPanel] =
                   postMessage(updateWebviewContent(editor, text[editor], @),
                               line, lineCount(text[editor]))]
               /\ sentToDisposed' = (sentToDisposed \/ ~panels[currentPanel].alive)
               /\ UNCHANGED <<currentPanel, created>>
          ELSE /\ created < MaxPanels
               /\ created' = created + 1
               /\ currentPanel' = created + 1
               /\ panels' = [panels EXCEPT ![created + 1] =
                   postMessage(updateWebviewContent(editor, text[editor], createWebviewPanel),
                               line, lineCount(text[editor]))]
               /\ UNCHANGED sentToDisposed

\* The command vscode-plugin-yaml-preview.previewYaml.
PreviewCommand ==
  \E line \in 0..MaxLine :
    /\ openPreviewWindow(active, line, "command")
    /\ UNCHANGED <<text, active, rvars>>

\* onDidChangeActiveTextEditor
ChangeActiveTextEditor ==
  \E editor \in (Docs \cup {NoEditor}) \ {active}, line \in 0..MaxLine :
    /\ active' = editor
    /\ IF editor # NoEditor /\ languageId(editor) = "yaml"
       THEN openPreviewWindow(editor, line, "activeEditor")
       ELSE /\ line = 0
            /\ last' = [event |-> "activeEditor", doc |-> editor, attempts |-> 0]
            /\ UNCHANGED <<currentPanel, panels, created, sentToDisposed>>
    /\ UNCHANGED <<text, rvars>>

\* onDidChangeTextDocument
ChangeTextDocument ==
  \E d \in Docs, content \in Texts :
    /\ content # text[d]
    /\ text' = [text EXCEPT ![d] = content]
    /\ IF currentPanel # NoPanel /\ d = active
       THEN /\ panels' = [panels EXCEPT ![currentPanel] = updateWebviewContent(d, content, @)]
            /\ sentToDisposed' = (sentToDisposed \/ ~panels[currentPanel].alive)
            /\ last' = [event |-> "change", doc |-> d, attempts |-> Attempts(d)]
       ELSE /\ last' = [event |-> "change", doc |-> d, attempts |-> 0]
            /\ UNCHANGED <<panels, sentToDisposed>>
    /\ UNCHANGED <<active, currentPanel, created, rvars>>

\* onDidChangeTextEditorVisibleRanges
ChangeVisibleRanges ==
  \E d \in Docs : \E line \in VisibleLines(text[d]) :
    /\ IF d = active /\ currentPanel # NoPanel
       THEN /\ panels' = [panels EXCEPT ![currentPanel] =
                            postMessage(@, line, lineCount(text[d]))]
            /\ sentToDisposed' = (sentToDisposed \/ ~panels[currentPanel].alive)
       ELSE UNCHANGED <<panels, sentToDisposed>>
    /\ last' = [event |-> "scroll", doc |-> d, attempts |-> 0]
    /\ UNCHANGED <<text, active, currentPanel, created, rvars>>

\* An onDidDispose callback that forgets to reset currentPanel.
onDidDisposeKeepsPanel == currentPanel

\* The callback given to currentPanel.onDidDispose: currentPanel = undefined.
onDidDispose == NoPanel

\* The host disposes a panel (the user closes it) and runs its onDidDispose
\* callback.
DisposePanel ==
  \E p \in 1..MaxPanels :
    /\ panels[p].alive
    /\ panels' = [panels EXCEPT ![p] = BlankPanel]
    /\ currentPanel' = onDidDispose
    /\ last' = [event |-> "dispose", doc |-> NoEditor, attempts |-> 0]
    /\ UNCHANGED <<text, active, created, sentToDisposed, rvars>>

Next ==
  \/ PreviewCommand
  \/ ChangeActiveTextEditor
  \/ ChangeTextDocument
  \/ ChangeVisibleRanges
  \/ DisposePanel

Spec == Init /\ [][Next]_vars
\* ================================================================ the claims
\* ------------------------------------------------- reading rendered output
Count(out, tok) == Cardinality({i \in 1..Len(out) : out[i] = tok})

\* Positions of the keys in the output: a key is followed by its separator.
KeyPositions(out) == {i \in 1..(Len(out) - 1) : out[i + 1] \in {": ", ":"}}

\* How many list containers are open before position i.
UlDepth(out, i) ==
  Cardinality({j \in 1..(i - 1) : out[j] = "<ul>"})
    - Cardinality({j \in 1..(i - 1) : out[j] = "</ul>"})

\* The position of the </ul> that closes the <ul> at position i (0 if none).
MatchClose(out, i) ==
  LET closes == {j \in (i + 1)..Len(out) : out[j] = "</ul>" /\ UlDepth(out, j) = UlDepth(out, i) + 1}
  IN  IF closes = {} THEN 0 ELSE CHOOSE j \in closes : \A k \in closes : j <= k

\* The elements of a set of integers in ascending order.
RECURSIVE Ascending(_)
Ascending(S) ==
  IF S = {} THEN <<>>
  ELSE LET m == CHOOSE x \in S : \A y \in S : x <= y IN <<m>> \o Ascending(S \ {m})

\* The keys of the list items at the top level of the output, in output order.
TopKeys(out) ==
  LET idx == Ascending({i \in KeyPositions(out) : UlDepth(out, i) = 0})
  IN  [j \in 1..Len(idx) |-> out[idx[j]]]

\* The keys of a mapping in the order the parser inserted them.
InsertedKeys(o) == [i \in 1..Len(o.entries) |-> o.entries[i][1]]

HasKey(o, k) == o.t = "object" /\ \E i \in 1..Len(o.entries) : o.entries[i][1] = k

HasStringTitle(o) ==
  o.t = "object" /\ \E i \in 1..Len(o.entries) :
                      o.entries[i][1] = "Title" /\ o.entries[i][2].t = "string"

TitleText(o) ==
  o.entries[CHOOSE i \in 1..Len(o.entries) : o.entries[i][1] = "Title"][2].s

RECURSIVE Sum(_)
Sum(ns) == IF ns = <<>> THEN 0 ELSE Head(ns) + Sum(Tail(ns))

\* How many mappings of the tree have a key "Title".
RECURSIVE TitleKeys(_)
TitleKeys(o) ==
  CASE o.t = "object" ->
         (IF HasKey(o, "Title") THEN 1 ELSE 0)
           + Sum([i \in 1..Len(o.entries) |-> TitleKeys(o.entries[i][2])])
    [] o.t = "array" -> Sum([i \in 1..Len(o.items) |-> TitleKeys(o.items[i])])
    [] OTHER -> 0

\* The nesting depth of every emitted key, in rendering order.
RECURSIVE KeyDepths(_, _, _)
KeyDepths(o, d, root) ==
  CASE o.t = "object" ->
         LET es == SelectSeq(ObjectEntries(o), LAMBDA e : ~(root /\ e[1] = "Title"))
         IN  Flatten([i \in 1..Len(es) |-> <<d>> \o KeyDepths(es[i][2], d + 1, FALSE)])
    [] o.t = "array" ->
         Flatten([i \in 1..Len(o.items) |-> KeyDepths(o.items[i], d + 1, FALSE)])
    [] OTHER -> <<>>

HeadingOpen(level) ==
  CASE level = 1 -> "<h1>" [] level = 2 -> "<h2>" [] level = 3 -> "<h3>"
    [] level = 4 -> "<h4>" [] OTHER -> "<h5>"

IsScalar(o) == o.t \in {"string", "number", "boolean", "null"}

\* String(s) for a scalar that is not a string.
Stringified(s) ==
  CASE s.t = "number" -> NumToString(s.n)
    [] s.t = "boolean" -> (IF s.b THEN "true" ELSE "false")
    [] OTHER -> "null"

Returned == pc \in {"first", "done"} /\ ~html1.err

\* ------------------------------------------------------------------- C1
\* C1: renderObject never throws: for every well-formed tree (a null mapping
\* value, a null sequence item and an absent root included) the call returns
\* an HTML string.
C1_RenderNeverThrows == pc \in {"first", "done"} => ~html1.err

\* ------------------------------------------------------------------- C3
\* C3: a sequence of N scalars (string, number, boolean or null) renders as
\* one list container holding exactly N list items, the i-th holding
\* markdown(s_i) for a string and the stringification of s_i otherwise, in
\* the original order.
C3_ScalarSequence ==
  (/\ pc \in {"first", "done"}
   /\ obj.t = "array"
   /\ \A i \in 1..Len(obj.items) : IsScalar(obj.items[i]))
  => html1 = Ok(<<"<ul>">>
                \o Flatten([i \in 1..Len(obj.items) |->
                     <<"<li>">>
                     \o (IF obj.items[i].t = "string"
                         THEN mdRender(obj.items[i].s)
                         ELSE <<Stringified(obj.items[i])>>)
                     \o <<"</li>">>])
                \o <<"</ul>">>)

\* ------------------------------------------------------------------- C4
\* C4: a mapping key emitted at nesting depth d is wrapped in a heading of
\* level min(1 + d, 5) when d < 5 and is plain text when d >= 5.
C4_KeyHeadingLevel ==
  (Returned /\ isRoot) =>
    LET out == html1.html
        ks == Ascending(KeyPositions(out))
        ds == KeyDepths(obj, 0, TRUE)
    IN  /\ Len(ks) = Len(ds)
        /\ \A j \in 1..Len(ks) :
             IF ds[j] < 5
             THEN ks[j] > 1 /\ out[ks[j] - 1] = HeadingOpen(IF 1 + ds[j] < 5 THEN 1 + ds[j] ELSE 5)
             ELSE ks[j] > 1 /\ out[ks[j] - 1] = "<li>"

\* ------------------------------------------------------------------- C5
\* How many mappings of the tree have the key k.
RECURSIVE KeyCount(_, _)
KeyCount(o, k) ==
  CASE o.t = "object" ->
         (IF HasKey(o, k) THEN 1 ELSE 0)
           + Sum([i \in 1..Len(o.entries) |-> KeyCount(o.entries[i][2], k)])
    [] o.t = "array" -> Sum([i \in 1..Len(o.items) |-> KeyCount(o.items[i], k)])
    [] OTHER -> 0

\* The tree without the root's own "Title" pair.
WithoutRootTitle(o) ==
  IF o.t = "object" THEN Obj(SelectSeq(o.entries, LAMBDA e : e[1] # "Title")) ELSE o

KeyTokens(out, k) == Cardinality({i \in KeyPositions(out) : out[i] = k})

\* A render that returns starts with the one promoted <h1> holding
\* markdown(Title) exactly when it is the root render of a mapping with a
\* string-valued key "Title", and the root's "Title" key is left out of the
\* root's listing.
TitlePromotion(out) ==
  LET promoted == isRoot /\ HasStringTitle(obj)
      heading == <<"<h1>">> \o mdRender(TitleText(obj)) \o <<"</h1>">>
  IN  /\ Count(out, "<h1>") = (IF promoted THEN 1 ELSE 0)
      /\ promoted => /\ Len(out) >= Len(heading)
                     /\ SubSeq(out, 1, Len(heading)) = heading
      /\ isRoot => "Title" \notin {TopKeys(out)[j] : j \in 1..Len(TopKeys(out))}

C6_ValueInOneContainer ==
  Returned =>
    LET out == html1.html
    IN  \A i \in KeyPositions(out) :
          /\ i + 2 <= Len(out)
          /\ out[i + 2] = "<ul>"
          /\ LET c == MatchClose(out, i + 2)
             IN  /\ c # 0
                 /\ c + 1 <= Len(out)
                 /\ out[c + 1] = "</li>"
                 /\ ~(out[i + 3] = "<ul>" /\ MatchClose(out, i + 3) = c - 1)

\* ------------------------------------------------------------------- C9
\* C9: the decomposed renderObject and the single-function renderObject
\* return the same string, or both throw, for every tree and isRoot flag.
C9_VariantsAgree ==
  pc = "done" => /\ html1.err = html2.err
                 /\ html1.html = html2.html

\* Both variants have rendered a sequence holding a mapping whose value is
\* not a sequence.
C9_Witness ==
  /\ pc = "done"
  /\ ~html1.err
  /\ obj.t = "array"
  /\ \E i \in 1..Len(obj.items) :
       /\ obj.items[i].t = "object"
       /\ \E j \in 1..Len(obj.items[i].entries) : obj.items[i].entries[j][2].t = "object"

\* ------------------------------------------------------------------ C10
\* C10: a root mapping lists every key other than "Title" exactly once, in
\* insertion order, and never lists "Title"; a root "Title" that is not a
\* string gives no heading either.
C10_RootKeysInInsertionOrder ==
  (Returned /\ isRoot /\ obj.t = "object") =>
    LET out == html1.html
    IN  /\ TopKeys(out) = SelectSeq(InsertedKeys(obj), LAMBDA k : k # "Title")
        /\ (HasKey(obj, "Title") /\ ~HasStringTitle(obj)) => Count(out, "<h1>") = 0

\* ------------------------------------------------------- reading the panel
IsErrorPage(html) == Len(html) >= 4 /\ html[4] = "Error parsing YAML: "

\* What a render attempt on content leaves in the panel.
Rendering(content) ==
  LET parsed == yamlLoad(content)
      page == getWebviewContent(parsed.value)
  IN  IF parsed.err THEN ErrorPage(parsed.msg)
      ELSE IF page.err THEN ErrorPage(page.msg)
      ELSE page.html

AlivePanels == {p \in 1..MaxPanels : panels[p].alive}

\* ------------------------------------------------------------------- C2
\* C2: when parsing fails the panel holds exactly the error page with the
\* parser's message and the renderer was not invoked; and the error page is
\* shown only when the parse step failed.
C2_ErrorPageIffParseFailed ==
  \A p \in AlivePanels :
    /\ panels[p].parse = "failed"
         => /\ panels[p].html = ErrorPage(YamlErrorMsg)
            /\ ~panels[p].rendered
    /\ IsErrorPage(panels[p].html) => panels[p].parse = "failed"

\* ------------------------------------------------------------------- C7
\* C7 as claimed: with a panel open, a text change of the active editor's
\* document makes exactly one render attempt, and the panel always shows the
\* rendering (or error page) of the active document's current text.
C7_PanelShowsActiveText ==
  (currentPanel # NoPanel /\ active # NoEditor) =>
    /\ (last.event = "change" /\ last.doc = active) => last.attempts = 1
    /\ panels[currentPanel].html = Rendering(text[active])

\* C7 as amended: with a panel open and the active editor's document a YAML
\* document, a text change of that document makes exactly one render attempt,
\* and the panel shows the rendering (or the error page) of that document's
\* current text, never of an earlier version.
C7_PanelShowsActiveYamlText ==
  (currentPanel # NoPanel /\ active # NoEditor /\ languageId(active) = "yaml") =>
    /\ (last.event = "change" /\ last.doc = active) => last.attempts = 1
    /\ panels[currentPanel].html = Rendering(text[active])

\* The active YAML document was edited with the panel open, and the panel
\* shows its rendering.
C7_Witness ==
  /\ currentPanel # NoPanel
  /\ active # NoEditor
  /\ languageId(active) = "yaml"
  /\ last.event = "change"
  /\ last.doc = active
  /\ text[active] = TextTitle
  /\ ~IsErrorPage(panels[currentPanel].html)

\* ------------------------------------------------------------------- C8
\* C8: at most one panel exists, currentPanel is defined exactly when that
\* panel is alive (so a panel is created only when there is none and disposal
\* resets currentPanel), and no update or scroll message goes to a disposed
\* panel.
C8_SinglePanel ==
  /\ Cardinality(AlivePanels) <= 1
  /\ currentPanel # NoPanel <=> AlivePanels # {}
  /\ currentPanel # NoPanel => currentPanel \in AlivePanels
  /\ ~sentToDisposed

\* A panel was disposed, a second one was opened and has been sent a scroll
\* message.
C8_Witness ==
  /\ created = 2
  /\ currentPanel = 2
  /\ panels[2].alive
  /\ panels[2].message # <<>>
  /\ last.event = "scroll"
====
